---- MODULE Spec2Model ----
(***************************************************************************)
(* Model of yagi::TypeManager (src/yagi/src/typemanager.cc): translation   *)
(* of the provider's TypeInfo descriptions into nodes of the decompiler's  *)
(* type registry (findById, findByTypeInfo, parseTypeInfo, parseFunc) and  *)
(* the patching of a live function's prototype (update,                    *)
(* setInjectAttribute).  The mutually recursive C++ functions are run as   *)
(* an explicit call stack, one frame per active call.                      *)
(***************************************************************************)
EXTENDS Integers, Sequences, FiniteSets, TLC

\* Bounds of the exploration.
MaxOps == 2
MaxLiveOps == 1
MaxDepth == 8

\* glb->getDefaultCodeSpace()->getAddrSize()
AddrSize == 8

NoTI == "<no-typeinfo>"
UnknownCC == "<UnknownCallingConvention>"
FixedDefaultCC == "__fastcall"
AllocaProbe == "alloca_probe"
CodeName == ""

(***************************************************************************)
(* The TypeInfo view model: what the provider can hand to the translator.  *)
(***************************************************************************)
TInfo(k, n, s, p, fs, pr, c, pn, d) ==
    [kind |-> k, name |-> n, size |-> s, pointee |-> p, fields |-> fs,
     proto |-> pr, cc |-> c, pnames |-> pn, dots |-> d]

PrimInfo(k, n, s) == TInfo(k, n, s, NoTI, <<>>, <<>>, UnknownCC, <<>>, FALSE)
PtrInfo(n, p) == TInfo("ptr", n, AddrSize, p, <<>>, <<>>, UnknownCC, <<>>, FALSE)
ArrayInfo(n, s, p) == TInfo("array", n, s, p, <<>>, <<>>, UnknownCC, <<>>, FALSE)
StructInfo(n, s, fs) == TInfo("struct", n, s, NoTI, fs, <<>>, UnknownCC, <<>>, FALSE)
FuncInfo(n, pr, c, pn, d) == TInfo("func", n, 0, NoTI, <<>>, pr, c, pn, d)
TypeStructField(o, n, t) == [offset |-> o, name |-> n, type |-> t]

TypeDB ==
    ( "tBool"    :> PrimInfo("bool", "bool", 1) )
 @@ ( "tChar"    :> PrimInfo("char", "char", 1) )
 @@ ( "tWchar"   :> PrimInfo("unicode", "wchar_t", 2) )
 @@ ( "tInt"     :> PrimInfo("int", "int", 4) )
 @@ ( "tInt8"    :> PrimInfo("int", "int", 8) )
 @@ ( "tFloat"   :> PrimInfo("float", "float", 4) )
 @@ ( "tVoid"    :> PrimInfo("void", "void", 0) )
 @@ ( "tVoidX"   :> PrimInfo("void", "VOID", 0) )
 @@ ( "tVoid2"   :> PrimInfo("void", "void2", 2) )
 @@ ( "tOpaque"  :> PrimInfo("other", "opaque", 4) )
 @@ ( "tNode"    :> StructInfo("Node", 16,
                       << TypeStructField(0, "next", "tNodePtr"),
                          TypeStructField(8, "value", "tInt") >>) )
 @@ ( "tNodePtr" :> PtrInfo("Node *", "tNode") )
 @@ ( "tSelf"    :> StructInfo("Self", 8, << TypeStructField(0, "me", "tSelf") >>) )
 @@ ( "tP"       :> PtrInfo("P", "tArrP") )
 @@ ( "tArrP"    :> ArrayInfo("ArrP", 2, "tP") )
 @@ ( "tLoop"    :> ArrayInfo("Loop", 0, "tLoop") )
 @@ ( "tArr"     :> ArrayInfo("int[3]", 3, "tInt") )
 @@ ( "tArr0"    :> ArrayInfo("int[]", 0, "tInt") )
 @@ ( "tIntPtr"  :> PtrInfo("int *", "tInt") )
 @@ ( "tFn0"     :> FuncInfo("fn0", <<>>, UnknownCC, <<>>, FALSE) )
 @@ ( "tFn1"     :> FuncInfo("fn1", <<"tInt", "tNodePtr">>, "__stdcall", <<"p">>, FALSE) )
 @@ ( "tFn2"     :> FuncInfo("fn2", <<"tVoid", "tInt", "tChar">>, "__thiscall", <<"x">>, TRUE) )
 @@ ( "tFn3"     :> FuncInfo("fn3", <<"tInt", "tInt", "tBool">>, UnknownCC, <<"a", "b">>, FALSE) )
 @@ ( "tFnPtr0"  :> PtrInfo("fn0 *", "tFn0") )
 @@ ( "tFnPtr1"  :> PtrInfo("fn1 *", "tFn1") )
 @@ ( "tFnPtr2"  :> PtrInfo("fn2 *", "tFn2") )
 @@ ( "tFnPtr3"  :> PtrInfo("fn3 *", "tFn3") )

TIs == DOMAIN TypeDB

\* m_archi->getTypeInfoFactory().build(name): the named types of the provider.
TypeInfoByName ==
    ( "Node" :> "tNode" ) @@ ( "Self" :> "tSelf" ) @@ ( "P" :> "tP" )

BuildByName(n) == IF n \in DOMAIN TypeInfoByName THEN TypeInfoByName[n] ELSE NoTI

\* m_archi->getTypeInfoFactory().build(address): what the provider may answer
\* for the address of a live function (NoTI: no value).
AddrTypes == {NoTI, "tFn0", "tFn1", "tFn2", "tFn3",
              "tFnPtr0", "tFnPtr1", "tFnPtr2", "tFnPtr3",
              "tInt", "tIntPtr", "tNode"}

CoreNames == {"void", "undefined4"}
Names == {TypeDB[t].name : t \in TIs} \cup CoreNames
FuncNames == {"f", AllocaProbe}
ModelNames == {"__fastcall", "__stdcall", "__cdecl"}

(***************************************************************************)
(* Target type nodes and the registry.                                     *)
(***************************************************************************)
NoId == [name |-> "<null>", k |-> 0]
NoErr == [kind |-> "", name |-> ""]

Node(m, n, s, tg, fs, md, r, ps, d) ==
    [meta |-> m, name |-> n, size |-> s, target |-> tg, fields |-> fs,
     model |-> md, ret |-> r, params |-> ps, dots |-> d]

TypeBase(s, m, n) == Node(m, n, s, NoId, <<>>, "", NoId, <<>>, FALSE)
TypeUnicode(n, s) == Node("unicode", n, s, NoId, <<>>, "", NoId, <<>>, FALSE)
TypeChar(n) == Node("char", n, 1, NoId, <<>>, "", NoId, <<>>, FALSE)
TypePointer(n, to) == Node("ptr", n, AddrSize, to, <<>>, "", NoId, <<>>, FALSE)
TypeArray(n, s, of) == Node("array", n, s, of, <<>>, "", NoId, <<>>, FALSE)
TypeStruct(n) == Node("struct", n, 0, NoId, <<>>, "", NoId, <<>>, FALSE)
TypeCode(md, r, ps, d) == Node("code", CodeName, 1, NoId, <<>>, md, r, ps, d)
TypeField(o, n, t) == [offset |-> o, name |-> n, type |-> t]

VoidId == [name |-> "void", k |-> 0]
Undef4Id == [name |-> "undefined4", k |-> 0]

FuncProto(md, o, its, ins, d, inj) ==
    [model |-> md, outtype |-> o, intypes |-> its, innames |-> ins,
     dots |-> d, inject |-> inj]

VARIABLES registry, heap, allocs, stack, status, result, err, funcs,
          call, results, ops, models, defaultCC

vars == <<registry, heap, allocs, stack, status, result, err, funcs,
          call, results, ops, models, defaultCC>>

St == [reg |-> registry, heap |-> heap, allocs |-> allocs, stack |-> stack,
       status |-> status, result |-> result, err |-> err, funcs |-> funcs]

Frame(fn, t, f) == [fn |-> fn, ti |-> t, acc |-> <<>>, self |-> NoId, func |-> f]

Top(st) == st.stack[Len(st.stack)]
Push(st, fr) == [st EXCEPT !.stack = Append(@, fr)]
ReplaceTop(st, fr) == [st EXCEPT !.stack[Len(st.stack)] = fr]

\* A C++ return: the callee's frame is popped and its value handed to the
\* caller, or to the outside when the callee was the outermost call.
Return(st, id) ==
    LET rest == SubSeq(st.stack, 1, Len(st.stack) - 1) IN
    IF rest = <<>>
    THEN [st EXCEPT !.stack = <<>>, !.status = "returned", !.result = id]
    ELSE [st EXCEPT !.stack = [rest EXCEPT ![Len(rest)].acc = Append(@, id)]]

\* An exception nobody on the stack catches.
Raise(st, kind, n) ==
    [st EXCEPT !.stack = <<>>, !.status = "raised", !.err = [kind |-> kind, name |-> n]]

NewId(st, n) == [name |-> n, k |-> st.allocs[n]]

\* new TypeXxx(...); setName(ct, name): the node enters the registry under
\* its name.  The engine's registry (TypeFactory::insert) refuses a second
\* node of an already taken name with a LowlevelError, which nothing in
\* TypeManager catches.
SetName(st, n, node) ==
    IF st.reg[n] # NoId
    THEN Raise([st EXCEPT !.allocs[n] = @ + 1], "LowlevelError", n)
    ELSE [st EXCEPT !.reg[n] = NewId(st, n),
                    !.heap = (NewId(st, n) :> node) @@ @,
                    !.allocs[n] = @ + 1]

SetNameAndReturn(st, n, node) ==
    LET s1 == SetName(st, n, node) IN
    IF s1.status = "raised" THEN s1 ELSE Return(s1, NewId(st, n))

GetTypeVoid(st) == st.reg["void"]

\* getTypeCode: the registry's find-or-add of an unnamed Code node.
GetTypeCode(st, md, r, ps, d) ==
    LET node == TypeCode(md, r, ps, d)
        same == {i \in DOMAIN st.heap : st.heap[i] = node}
    IN  IF same # {}
        THEN [st |-> st, id |-> CHOOSE i \in same : TRUE]
        ELSE [st |-> [st EXCEPT !.heap = (NewId(st, CodeName) :> node) @@ @,
                                !.allocs[CodeName] = @ + 1],
              id |-> NewId(st, CodeName)]

HasModel(cc) == cc \in models

\* Variant of ResolveCC: the fixed default name is skipped.
ResolveCCSkipFixed(t) ==
    IF t.cc = UnknownCC THEN defaultCC
    ELSE IF ~HasModel(t.cc) THEN defaultCC ELSE t.cc

\* Variant of ResolveCC: the name is not checked against the models.
ResolveCCUnchecked(t) == IF t.cc = UnknownCC THEN FixedDefaultCC ELSE t.cc

\* parseFunc, lines 57-70: the name of the calling convention model.
ResolveCC(t) ==
    LET cc == IF t.cc = UnknownCC THEN FixedDefaultCC ELSE t.cc IN
    IF ~HasModel(cc) THEN defaultCC ELSE cc

\* Variant of FindCached: the lookup never finds a node.
FindCachedNever(st, n) == NoId

\* TypeFactory::findById(n, id): the registry's own lookup.
FindCached(st, n) == st.reg[n]

\* findByTypeInfo: findByName is the engine's lookup by name, which goes
\* through the virtual findById (hence the UnknownTypeError caught at line
\* 198).  The lookup by name asks the provider on a miss
\* (findById) and translates the provider's type; when the provider does
\* not know the name either (UnknownTypeError, caught), the type passed in
\* is translated.
StepFindByTypeInfo(st, top) ==
    LET n == TypeDB[top.ti].name IN
    IF FindCached(st, n) # NoId
    THEN Return(st, FindCached(st, n))
    ELSE IF BuildByName(n) # NoTI
         THEN ReplaceTop(st, Frame("parseTypeInfo", BuildByName(n), ""))
         ELSE ReplaceTop(st, Frame("parseTypeInfo", top.ti, ""))

VoidSize(t) == IF t.size = 0 THEN AddrSize ELSE t.size

\* Variant of ArrayNode: a zero size still gives an Array node.
ArrayNodeAlways(t, elem) == TypeArray(t.name, t.size, elem)

\* The node an Array TypeInfo becomes, once its element is translated.
ArrayNode(t, elem) ==
    IF t.size > 0 THEN TypeArray(t.name, t.size, elem)
    ELSE TypePointer(t.name, elem)

\* Variant of StepParsePointer: the pointer is registered before its
\* pointee is translated and completed afterwards.
StepParsePointerEarly(st, top) ==
    LET t == TypeDB[top.ti] IN
    IF top.self = NoId
    THEN LET s1 == SetName(st, t.name, TypePointer(t.name, NoId)) IN
         IF s1.status = "raised" THEN s1
         ELSE [s1 EXCEPT !.stack[Len(st.stack)].self = NewId(st, t.name)]
    ELSE IF top.acc = <<>>
    THEN Push(st, Frame("findByTypeInfo", t.pointee, ""))
    ELSE Return([st EXCEPT !.heap[top.self].target = top.acc[1]], top.self)

\* The pointer branch, lines 80-90.
StepParsePointer(st, top) ==
    LET t == TypeDB[top.ti] IN
    IF top.acc = <<>> THEN Push(st, Frame("findByTypeInfo", t.pointee, ""))
    ELSE SetNameAndReturn(st, t.name, TypePointer(t.name, top.acc[1]))

\* Variant of StepParseStruct: the struct is registered after its fields
\* have been translated.
StepParseStructLate(st, top) ==
    LET t == TypeDB[top.ti] IN
    IF Len(top.acc) < Len(t.fields)
    THEN Push(st, Frame("findByTypeInfo", t.fields[Len(top.acc) + 1].type, ""))
    ELSE SetNameAndReturn(st, t.name,
            [TypeStruct(t.name) EXCEPT !.fields =
                [i \in 1..Len(t.fields) |->
                    TypeField(t.fields[i].offset, t.fields[i].name, top.acc[i])]])

\* The struct branch, lines 127-142.
StepParseStruct(st, top) ==
    LET t == TypeDB[top.ti] IN
    IF top.self = NoId
    THEN LET s1 == SetName(st, t.name, TypeStruct(t.name)) IN
         IF s1.status = "raised" THEN s1
         ELSE [s1 EXCEPT !.stack[Len(st.stack)].self = NewId(st, t.name)]
    ELSE IF Len(top.acc) < Len(t.fields)
    THEN Push(st, Frame("findByTypeInfo", t.fields[Len(top.acc) + 1].type, ""))
    ELSE Return([st EXCEPT !.heap[top.self].fields =
                     [i \in 1..Len(t.fields) |->
                         TypeField(t.fields[i].offset, t.fields[i].name, top.acc[i])]],
                top.self)

StepParseTypeInfo(st, top) ==
    LET t == TypeDB[top.ti]
        name == t.name
    IN
    IF t.kind = "ptr" THEN StepParsePointer(st, top)
    ELSE IF t.kind = "bool" THEN SetNameAndReturn(st, name, TypeBase(t.size, "bool", name))
    ELSE IF t.kind = "unicode" THEN SetNameAndReturn(st, name, TypeUnicode(name, t.size))
    ELSE IF t.kind = "char" THEN SetNameAndReturn(st, name, TypeChar(name))
    ELSE IF t.kind = "int" THEN SetNameAndReturn(st, name, TypeBase(t.size, "int", name))
    ELSE IF t.kind = "float" THEN SetNameAndReturn(st, name, TypeBase(t.size, "float", name))
    ELSE IF t.kind = "struct" THEN StepParseStruct(st, top)
    ELSE IF t.kind = "void" THEN SetNameAndReturn(st, name, TypeBase(VoidSize(t), "void", name))
    ELSE IF t.kind = "func" THEN ReplaceTop(st, Frame("parseFunc", top.ti, ""))
    ELSE IF t.kind = "array" THEN
        IF top.acc = <<>> THEN Push(st, Frame("findByTypeInfo", t.pointee, ""))
        ELSE SetNameAndReturn(st, name, ArrayNode(t, top.acc[1]))
    ELSE SetNameAndReturn(st, name, TypeBase(t.size, "unknown", name))

StepParseFunc(st, top) ==
    LET t == TypeDB[top.ti] IN
    IF Len(top.acc) < Len(t.proto)
    THEN Push(st, Frame("findByTypeInfo", t.proto[Len(top.acc) + 1], ""))
    ELSE LET retType == IF Len(t.proto) > 0 THEN top.acc[1] ELSE GetTypeVoid(st)
             paramType == IF Len(t.proto) > 0 THEN Tail(top.acc) ELSE <<>>
             cc == ResolveCC(t)
         IN  IF ~HasModel(cc) THEN Raise(st, "LowlevelError", cc)
             ELSE LET g == GetTypeCode(st, cc, retType, paramType, t.dots) IN
                  Return(g.st, g.id)

\* proto->getPieces(pieces) on the prototype of the Code node parseFunc built.
GetPieces(node) ==
    [model |-> node.model, outtype |-> node.ret, intypes |-> node.params,
     innames |-> [i \in 1..Len(node.params) |-> ""], dotdotdot |-> node.dots]

\* Variant of SetPieces: only the names are written.
SetPiecesNamesOnly(proto, pieces) == [proto EXCEPT !.innames = pieces.innames]

\* func.getFuncProto().setPieces(pieces)
SetPieces(proto, pieces) ==
    FuncProto(pieces.model, pieces.outtype, pieces.intypes, pieces.innames,
              pieces.dotdotdot, proto.inject)

\* Variant of PatchNames: the lengths are not compared.
PatchNamesUnguarded(proto, pieces, newParamNames) ==
    SetPieces(proto, [pieces EXCEPT !.innames = newParamNames])

\* update, lines 233-239.
PatchNames(proto, pieces, newParamNames) ==
    IF Len(newParamNames) = Len(pieces.innames)
    THEN SetPieces(proto, [pieces EXCEPT !.innames = newParamNames])
    ELSE proto

\* saveXml / restoreXml of a prototype: the inject children of the element.
SaveXml(proto) ==
    [proto |-> proto,
     injects |-> IF proto.inject = "" THEN <<>> ELSE <<proto.inject>>]

RestoreXml(doc) ==
    [doc.proto EXCEPT !.inject =
        IF doc.injects = <<>> THEN "" ELSE doc.injects[Len(doc.injects)]]

SetInjectAttribute(proto, injectName) ==
    LET document == SaveXml(proto) IN
    RestoreXml([document EXCEPT !.injects = Append(@, injectName)])

\* update, lines 228-245, once parseFunc has returned.
StepUpdate(st, top) ==
    LET type == st.heap[top.acc[1]]
        pieces == GetPieces(type)
        newParamNames == TypeDB[top.ti].pnames
        p1 == PatchNames(st.funcs[top.func], pieces, newParamNames)
        p2 == IF top.func = AllocaProbe THEN SetInjectAttribute(p1, AllocaProbe) ELSE p1
    IN  Return([st EXCEPT !.funcs[top.func] = p2], NoId)

\* Variant of Unwrap: a pointer is not unwrapped.
UnwrapNever(t) == t

\* update, lines 212-217.
Unwrap(t) == IF TypeDB[t].kind = "ptr" THEN TypeDB[t].pointee ELSE t

Begin(st) == [st EXCEPT !.status = "run", !.result = NoId, !.err = NoErr, !.stack = <<>>]

\* update, lines 206-227, up to the call of parseFunc.
StartUpdate(st, f, t) ==
    IF t = NoTI THEN Return(Begin(st), NoId)
    ELSE IF TypeDB[Unwrap(t)].kind # "func"
    THEN Raise(Begin(st), "SymbolIsNotAFunction", TypeDB[Unwrap(t)].name)
    ELSE [Begin(st) EXCEPT !.stack = << Frame("update", Unwrap(t), f),
                                        Frame("parseFunc", Unwrap(t), "") >>]

StartFindByTypeInfo(st, t) ==
    [Begin(st) EXCEPT !.stack = << Frame("findByTypeInfo", t, "") >>]

\* findById, lines 17-34.
StartFindById(st, n) ==
    IF FindCached(st, n) # NoId THEN Return(Begin(st), FindCached(st, n))
    ELSE IF BuildByName(n) = NoTI THEN Raise(Begin(st), "UnknownTypeError", n)
    ELSE [Begin(st) EXCEPT !.stack = << Frame("parseTypeInfo", BuildByName(n), "") >>]

StepOp(st) ==
    LET top == Top(st) IN
    CASE top.fn = "findByTypeInfo" -> StepFindByTypeInfo(st, top)
      [] top.fn = "parseTypeInfo"  -> StepParseTypeInfo(st, top)
      [] top.fn = "parseFunc"      -> StepParseFunc(st, top)
      [] top.fn = "update"         -> StepUpdate(st, top)

\* The recursion is followed down to MaxDepth nested calls.
CanStep(st) == st.status = "run" /\ Len(StepOp(st).stack) <= MaxDepth

SetSt(s) ==
    /\ registry' = s.reg
    /\ heap' = s.heap
    /\ allocs' = s.allocs
    /\ stack' = s.stack
    /\ status' = s.status
    /\ result' = s.result
    /\ err' = s.err
    /\ funcs' = s.funcs

Idle == status # "run"

Snapshot(op, t, f, n) ==
    [op |-> op, ti |-> t, func |-> f, name |-> n,
     preFuncs |-> funcs, preReg |-> registry, preHeap |-> heap]

Record(s) ==
    results' = IF s.status = "returned" /\ call'.op = "findByTypeInfo"
               THEN [results EXCEPT ![call'.ti] = s.result]
               ELSE results

\* The state after construction: the registry holds the engine's core
\* types, the architecture's default calling convention is a registered
\* model, and the live functions carry the prototypes the engine gave them.
Init ==
    /\ defaultCC \in {"__cdecl", "__fastcall"}
    /\ models \in {{defaultCC}, ModelNames}
    /\ registry = [n \in Names |-> IF n = "void" THEN VoidId
                                   ELSE IF n = "undefined4" THEN Undef4Id ELSE NoId]
    /\ heap = (VoidId :> TypeBase(1, "void", "void"))
              @@ (Undef4Id :> TypeBase(4, "unknown", "undefined4"))
    /\ allocs = [n \in Names \cup {CodeName} |-> IF n \in CoreNames THEN 1 ELSE 0]
    /\ stack = <<>>
    /\ status = "idle"
    /\ result = NoId
    /\ err = NoErr
    /\ funcs = ( "f" :> FuncProto(defaultCC, VoidId, <<Undef4Id>>, <<"param_1">>, FALSE, "") )
            @@ ( AllocaProbe :> FuncProto(defaultCC, VoidId, <<>>, <<>>, FALSE, "") )
    /\ call = [op |-> "", ti |-> NoTI, func |-> "", name |-> "",
               preFuncs |-> funcs, preReg |-> registry, preHeap |-> heap]
    /\ results = [t \in TIs |-> NoId]
    /\ ops = 0

CallFindByTypeInfoUpTo(lim) ==
    \E t \in TIs :
        /\ Idle /\ ops < lim
        /\ call' = Snapshot("findByTypeInfo", t, "", TypeDB[t].name)
        /\ SetSt(StartFindByTypeInfo(St, t))
        /\ ops' = ops + 1
        /\ UNCHANGED <<results, models, defaultCC>>

CallFindByIdUpTo(lim) ==
    \E n \in Names :
        /\ Idle /\ ops < lim
        /\ call' = Snapshot("findById", NoTI, "", n)
        /\ SetSt(StartFindById(St, n))
        /\ ops' = ops + 1
        /\ UNCHANGED <<results, models, defaultCC>>

CallUpdateUpTo(lim) ==
    \E f \in FuncNames, t \in AddrTypes :
        /\ Idle /\ ops < lim
        /\ call' = Snapshot("update", t, f, f)
        /\ SetSt(StartUpdate(St, f, t))
        /\ ops' = ops + 1
        /\ UNCHANGED <<results, models, defaultCC>>

CallFindByTypeInfo == CallFindByTypeInfoUpTo(MaxOps)
CallFindById == CallFindByIdUpTo(MaxOps)
CallUpdate == CallUpdateUpTo(MaxOps)

Step(fn) ==
    /\ status = "run"
    /\ Top(St).fn = fn
    /\ CanStep(St)
    /\ SetSt(StepOp(St))
    /\ UNCHANGED <<call, ops, models, defaultCC>>
    /\ Record(StepOp(St))

FindByTypeInfoStep == Step("findByTypeInfo")
ParseTypeInfoStep == Step("parseTypeInfo")
ParseFuncStep == Step("parseFunc")
UpdateStep == Step("update")

Next ==
    \/ CallFindByTypeInfo
    \/ CallFindById
    \/ CallUpdate
    \/ FindByTypeInfoStep
    \/ ParseTypeInfoStep
    \/ ParseFuncStep
    \/ UpdateStep

Spec == Init /\ [][Next]_vars

TypeOK ==
    /\ status \in {"idle", "run", "returned", "raised"}
    /\ Len(stack) <= MaxDepth
    /\ defaultCC \in models
    /\ \A n \in Names : registry[n] # NoId => registry[n] \in DOMAIN heap

\* The same program with fewer calls per behaviour, under the
\* run-to-completion scheduling of a synchronous C++ call: a call that has
\* started keeps executing.
LiveCallFindByTypeInfo == CallFindByTypeInfoUpTo(MaxLiveOps)
LiveCallFindById == CallFindByIdUpTo(MaxLiveOps)
LiveCallUpdate == CallUpdateUpTo(MaxLiveOps)

LiveNext ==
    \/ LiveCallFindByTypeInfo
    \/ LiveCallFindById
    \/ LiveCallUpdate
    \/ FindByTypeInfoStep
    \/ ParseTypeInfoStep
    \/ ParseFuncStep
    \/ UpdateStep

LiveSpec ==
    /\ Init
    /\ [][LiveNext]_vars
    /\ WF_vars(FindByTypeInfoStep)
    /\ WF_vars(ParseTypeInfoStep)
    /\ WF_vars(ParseFuncStep)
    /\ WF_vars(UpdateStep)

\* One whole call, run to its end (or as deep as the recursion is followed).
RECURSIVE Run(_)
Run(st) == IF CanStep(st) THEN Run(StepOp(st)) ELSE st

Outcome(st) ==
    [funcs |-> st.funcs, reg |-> st.reg, heap |-> st.heap,
     status |-> st.status, err |-> st.err]

(***************************************************************************)
(* Vocabulary of the properties.                                           *)
(***************************************************************************)
Finished == status \in {"returned", "raised"}
FindDone == call.op = "findByTypeInfo" /\ status = "returned"
UpdateDone == call.op = "update" /\ status = "returned" /\ call.ti # NoTI
FuncTypeOf(t) == IF TypeDB[t].kind = "ptr" THEN TypeDB[t].pointee ELSE t
BuiltParamCount(t) == IF Len(TypeDB[t].proto) > 0 THEN Len(TypeDB[t].proto) - 1 ELSE 0
PrimTIs == {t \in TIs : TypeDB[t].kind \in {"bool", "char", "unicode", "int", "float", "void"}}
InjectAfter(f, inj) == IF f = AllocaProbe THEN AllocaProbe ELSE inj

ExpectedCC(t) ==
    IF t.cc # UnknownCC
    THEN (IF t.cc \in models THEN t.cc ELSE defaultCC)
    ELSE (IF "__fastcall" \in models THEN "__fastcall" ELSE defaultCC)

C2_NotAFunctionNamesTheFunction ==
    (call.op = "update" /\ Finished) =>
        /\ (status = "raised" /\ err.kind = "SymbolIsNotAFunction")
             <=> (call.ti # NoTI /\ TypeDB[FuncTypeOf(call.ti)].kind # "func")
        /\ err.kind = "SymbolIsNotAFunction" => err.name = call.func
        /\ call.ti = NoTI =>
             /\ status = "returned"
             /\ funcs = call.preFuncs
             /\ registry = call.preReg
             /\ heap = call.preHeap

\* What update does do in those cases: the error carries the name of the
\* unwrapped type.
UpdateErrorNamesTheType ==
    (call.op = "update" /\ Finished) =>
        /\ (status = "raised" /\ err.kind = "SymbolIsNotAFunction")
             <=> (call.ti # NoTI /\ TypeDB[FuncTypeOf(call.ti)].kind # "func")
        /\ err.kind = "SymbolIsNotAFunction" => err.name = TypeDB[FuncTypeOf(call.ti)].name
        /\ call.ti = NoTI =>
             /\ status = "returned"
             /\ funcs = call.preFuncs
             /\ registry = call.preReg
             /\ heap = call.preHeap

BackRefDirect(t, i) == TypeDB[TypeDB[t].fields[i].type].name = TypeDB[t].name
BackRefPtr(t, i) ==
    LET f == TypeDB[TypeDB[t].fields[i].type] IN
    f.kind = "ptr" /\ TypeDB[f.pointee].name = TypeDB[t].name
SelfRefStructs ==
    {t \in TIs : /\ TypeDB[t].kind = "struct"
                 /\ \E i \in 1..Len(TypeDB[t].fields) : BackRefDirect(t, i) \/ BackRefPtr(t, i)}

SelfRefResolved ==
    (FindDone /\ call.ti \in SelfRefStructs) =>
        LET t == TypeDB[call.ti] IN
        /\ result = registry[t.name]
        /\ heap[result].meta = "struct"
        /\ Len(heap[result].fields) = Len(t.fields)
        /\ \A i \in 1..Len(t.fields) :
              /\ BackRefDirect(call.ti, i) => heap[result].fields[i].type = result
              /\ BackRefPtr(call.ti, i) =>
                    /\ heap[heap[result].fields[i].type].meta = "ptr"
                    /\ heap[heap[result].fields[i].type].target = result

\* C3: the translation of a struct that refers back to itself, directly or
\* through a pointer field, ends by returning, and the back-reference is the
\* very node registered under the struct's name and returned.
C3_SelfRefStructTerminates ==
    /\ [] SelfRefResolved
    /\ (status = "run" /\ call.op = "findByTypeInfo" /\ call.ti \in SelfRefStructs)
          ~> (status = "returned")

C3_Witness ==
    /\ FindDone
    /\ call.ti = "tNode"
    /\ call.preReg["Node"] = NoId
    /\ heap[heap[result].fields[1].type].target = result
    /\ heap[heap[result].fields[2].type].meta = "int"

\* C4: translating a primitive TypeInfo returns; when its name is already
\* registered the registered node is returned and no node is created; two
\* translations of one name gave the same node and translations of distinct
\* names gave distinct nodes.
C4_PrimitiveIdentity ==
    /\ (call.op = "findByTypeInfo" /\ Finished /\ call.ti \in PrimTIs) =>
          /\ status = "returned"
          /\ result = registry[call.name]
          /\ call.preReg[call.name] # NoId =>
                /\ result = call.preReg[call.name]
                /\ heap = call.preHeap
                /\ registry = call.preReg
    /\ \A t1, t2 \in PrimTIs :
          (results[t1] # NoId /\ results[t2] # NoId) =>
              (TypeDB[t1].name = TypeDB[t2].name <=> results[t1] = results[t2])

C4_Witness ==
    /\ FindDone
    /\ call.ti = "tInt8"
    /\ results["tInt"] # NoId
    /\ results["tInt8"] = results["tInt"]
    /\ results["tBool"] = NoId

EmptyNoCC ==
    {t \in TIs : TypeDB[t].kind = "func" /\ TypeDB[t].proto = <<>> /\ TypeDB[t].cc = UnknownCC}

\* C6 (as amended): a Function type with an empty prototype list and no
\* calling convention becomes a Code node with Void return, no parameters,
\* and the convention "__fastcall" when that is a registered model, the
\* architecture default otherwise.
C6_EmptyFunctionFixedDefault ==
    (call.op = "findByTypeInfo" /\ Finished /\ call.ti \in EmptyNoCC) =>
        /\ status = "returned"
        /\ heap[result].meta = "code"
        /\ heap[result].ret = VoidId
        /\ heap[result].params = <<>>
        /\ heap[result].model =
              (IF "__fastcall" \in models THEN "__fastcall" ELSE defaultCC)

\* C6 as stated: the convention is the architecture default whatever models
\* are registered.
C6_EmptyFunctionArchDefault ==
    (call.op = "findByTypeInfo" /\ Finished /\ call.ti \in EmptyNoCC) =>
        /\ status = "returned"
        /\ heap[result].meta = "code"
        /\ heap[result].ret = VoidId
        /\ heap[result].params = <<>>
        /\ heap[result].model = defaultCC

C6_Witness ==
    /\ FindDone
    /\ call.ti \in EmptyNoCC
    /\ defaultCC # "__fastcall"
    /\ heap[result].model = "__fastcall"
    /\ heap[result].ret = VoidId

\* C7: from any state between calls, update with "pointer to X" for a
\* function type X ends in the same prototypes, inject tags, registry and
\* error as update with X.
C7_PointerUnwrapEquivalent ==
    Idle =>
        \A f \in FuncNames, p \in TIs :
            (TypeDB[p].kind = "ptr" /\ TypeDB[TypeDB[p].pointee].kind = "func") =>
                Outcome(Run(StartUpdate(St, f, p)))
                    = Outcome(Run(StartUpdate(St, f, TypeDB[p].pointee)))

C7_Witness ==
    /\ UpdateDone
    /\ TypeDB[call.ti].kind = "ptr"
    /\ funcs[call.func].innames = TypeDB[TypeDB[call.ti].pointee].pnames
    /\ funcs[call.func] # call.preFuncs[call.func]

\* C8: an Array TypeInfo translates to an Array node of the source size
\* over the translated element when the size is positive, to a Pointer node
\* to the translated element when it is 0, registered under the source name.
C8_ArrayTranslation ==
    (FindDone /\ TypeDB[call.ti].kind = "array" /\ call.preReg[call.name] = NoId) =>
        LET t == TypeDB[call.ti] IN
        /\ registry[t.name] = result
        /\ heap[result].name = t.name
        /\ heap[result].target = registry[TypeDB[t.pointee].name]
        /\ t.size > 0 => (heap[result].meta = "array" /\ heap[result].size = t.size)
        /\ t.size = 0 => heap[result].meta = "ptr"

C8_Witness ==
    /\ FindDone
    /\ call.ti = "tArr0"
    /\ call.preReg[call.name] = NoId
    /\ heap[result].meta = "ptr"
    /\ heap[heap[result].target].meta = "int"

RECURSIVE RawReach(_, _)
RawReach(t, k) ==
    IF k = 0 \/ TypeDB[t].kind \notin {"ptr", "array"} THEN {}
    ELSE {TypeDB[t].pointee} \cup RawReach(TypeDB[t].pointee, k - 1)

\* The TypeInfos reached from t through pointees, elements, fields and
\* prototype entries, in at most k steps.
RECURSIVE AnyReach(_, _)
AnyReach(t, k) ==
    IF k = 0 THEN {}
    ELSE LET kids == (IF TypeDB[t].pointee # NoTI THEN {TypeDB[t].pointee} ELSE {})
                     \cup {TypeDB[t].fields[i].type : i \in 1..Len(TypeDB[t].fields)}
                     \cup {TypeDB[t].proto[i] : i \in 1..Len(TypeDB[t].proto)}
         IN  kids \cup UNION {AnyReach(c, k - 1) : c \in kids}

OnRawCycle(t) == \E c \in RawReach(t, Cardinality(TIs)) : TypeDB[c].name = TypeDB[t].name
RawCycleNames(t) == {TypeDB[c].name : c \in RawReach(t, Cardinality(TIs))}
OnStructCycle(t) ==
    /\ TypeDB[t].kind \in {"ptr", "array"}
    /\ ~OnRawCycle(t)
    /\ \E c \in AnyReach(t, 4) : TypeDB[c].name = TypeDB[t].name

RawCycleCall ==
    /\ call.op = "findByTypeInfo"
    /\ OnRawCycle(call.ti)
    /\ \A n \in RawCycleNames(call.ti) : call.preReg[n] = NoId

\* No registered Pointer or Array node is without its translated target.
PointeeBeforeRegistration ==
    \A n \in Names :
        (registry[n] # NoId /\ heap[registry[n]].meta \in {"ptr", "array"}) =>
            heap[registry[n]].target \in DOMAIN heap

\* C10: Pointer and Array nodes are registered only once their pointee or
\* element is translated; translating a pointer or array whose pointee chain leads back to its
\* own name through pointers and arrays only, from a registry with none of
\* the chain's names, never ends and nests calls ever deeper; when the cycle
\* passes through a named struct the translation ends.
C10_RawCycleDiverges ==
    /\ [] PointeeBeforeRegistration
    /\ [] ~(RawCycleCall /\ Finished)
    /\ (RawCycleCall /\ status = "run") ~> (status = "run" /\ Len(stack) = MaxDepth)
    /\ (status = "run" /\ call.op = "findByTypeInfo" /\ OnStructCycle(call.ti)) ~> Finished

C10_Witness ==
    /\ RawCycleCall
    /\ call.ti = "tP"
    /\ status = "run"
    /\ Len(stack) = MaxDepth
    /\ registry["P"] = NoId
    /\ registry["ArrP"] = NoId
====
